---- MODULE Spec2Model ----
(***************************************************************************)
(* A model of the topologicalsort package (src/topologicalsort.go, the     *)
(* revision with the visited/finished maps, lines 142-297): the Graph      *)
(* store (RegisterVertex, AddEdge), the depth-first traversal with cycle   *)
(* detection (DepthFirstSearch), the sort driver (TopologicalSort) and the *)
(* accessors SortedKeys and SortedValues.                                  *)
(*                                                                         *)
(* A *GraphNode is modelled by the record it points to.  RegisterVertex    *)
(* is the only place that allocates a node, it allocates one per key and   *)
(* no field of a node is ever assigned, so two pointers are equal exactly  *)
(* when the records are.                                                   *)
(*                                                                         *)
(* The recursion of DepthFirstSearch is an explicit stack of frames        *)
(* [node, i]: i is the position of the range loop over                     *)
(* g.adjacencyList[node.Key].  Go leaves the iteration order of            *)
(* "range g.vertices" unspecified: the driver's loop picks any vertex it   *)
(* has not yet iterated over.                                              *)
(***************************************************************************)
EXTENDS Integers, Sequences, FiniteSets, TLC

\* The keys and payloads the callers draw their arguments from.
Keys == {"a", "b", "c"}
Data == {"d1", "d2"}

\* The bounds of a behaviour: at most .edges successful AddEdge calls and at
\* most .sorts TopologicalSort calls, with arguments from .keys and .data.
\* Wide: three keys, enough edges for a diamond or a cycle through all of
\* them, one sort.  Repeat: two keys with either payload, sorted again and
\* again.
MaxEdges == 3
MaxSorts == 1
RepeatEdges == 2
RepeatSorts == 2

Wide == [keys |-> Keys, data |-> {"d1"}, edges |-> MaxEdges, sorts |-> MaxSorts]
Repeat == [keys |-> {"a", "b"}, data |-> Data, edges |-> RepeatEdges, sorts |-> RepeatSorts]

NoKey == "-"

VARIABLES
    vertices,         \* g.vertices: key -> node
    adjacencyList,    \* g.adjacencyList: key -> sequence of nodes
    topoSortedOrder,  \* g.topoSortedOrder: sequence of nodes
    pc,               \* "idle", or the place of the running TopologicalSort call
    todo,             \* the vertices "range g.vertices" has not yet yielded
    visited,          \* the visited map of the running call: node -> bool
    finished,         \* the finished map of the running call: node -> bool
    stack,            \* the DepthFirstSearch frames, innermost last
    last,             \* the last call made: operation, arguments, returned values
    nsorts,           \* TopologicalSort calls begun so far
    nedges,           \* successful AddEdge calls so far
    entered,          \* key -> DepthFirstSearch calls on its node in the running sort
    done,             \* key -> times the running sort has finished its node
    examined,         \* <<key, i>> -> times the running sort has examined the
                      \* i-th neighbor of key's node
    accessed,         \* SortedKeys calls since the last sort began (2: two or
                      \* more) and what the latest of them returned
    bound             \* the bounds of this behaviour: Wide or Repeat

vars == <<vertices, adjacencyList, topoSortedOrder, pc, todo, visited, finished,
          stack, last, nsorts, nedges, entered, done, examined, accessed, bound>>

----------------------------------------------------------------------------
\* Values

\* An error value: the format string of fmt.Errorf (kind) and its arguments.
NoErr == [kind |-> "nil", k1 |-> NoKey, k2 |-> NoKey]
ErrDuplicateVertex ==
    [kind |-> "attempted to register duplicate vertex", k1 |-> NoKey, k2 |-> NoKey]
ErrUnregistered(k) ==
    [kind |-> "attempted to add edge to unregistered vertex %s", k1 |-> k, k2 |-> NoKey]
ErrDuplicateEdge(s, d) ==
    [kind |-> "attempted to add duplicate edge between %s and %s", k1 |-> s, k2 |-> d]
\* The cycle error as it would be with the two keys in the other order.
ErrCycleSwapped(n, m) ==
    [kind |-> "cycle detected: found a back edge from %s to %s", k1 |-> m, k2 |-> n]

ErrCycle(n, m) ==
    [kind |-> "cycle detected: found a back edge from %s to %s", k1 |-> n, k2 |-> m]

NewGraphNode(key, data) == [Key |-> key, Data |-> data]

\* A map read m[k] in Go: the zero value when k is absent.
MapGet(m, k, zero) == IF k \in DOMAIN m THEN m[k] ELSE zero

\* m[k] = v on a Go map.
MapSet(m, k, v) == [x \in DOMAIN m \cup {k} |-> IF x = k THEN v ELSE m[x]]

EmptyMap == [x \in {} |-> FALSE]

\* containsNode as it would be if the loop returned after its first comparison.
containsNodeFirstOnly(nodes, match) == Len(nodes) > 0 /\ nodes[1] = match

containsNode(nodes, match) == \E i \in 1..Len(nodes) : nodes[i] = match

SortedKeys(order) == [i \in 1..Len(order) |-> order[i].Key]

\* SortedValues as it would be if it copied SortedKeys' loop body unchanged.
SortedValuesOfKey(order) == [i \in 1..Len(order) |-> order[i].Key]

SortedValues(order) == [i \in 1..Len(order) |-> order[i].Data]

Call(op, a1, a2, keys, err) ==
    [op |-> op, a1 |-> a1, a2 |-> a2, keys |-> keys, err |-> err]

\* The counters of a sort that has examined and finished nothing yet.
NoneDone == [k \in Keys |-> 0]
NoneExamined == [e \in Keys \X (1..Cardinality(Keys)) |-> 0]
NotAccessed == [n |-> 0, keys |-> <<>>]

----------------------------------------------------------------------------
\* NewGraph

Init ==
    /\ vertices = EmptyMap
    /\ adjacencyList = EmptyMap
    /\ topoSortedOrder = <<>>
    /\ pc = "idle"
    /\ todo = {}
    /\ visited = EmptyMap
    /\ finished = EmptyMap
    /\ stack = <<>>
    /\ last = Call("NewGraph", NoKey, NoKey, <<>>, NoErr)
    /\ nsorts = 0
    /\ nedges = 0
    /\ entered = [k \in Keys |-> 0]
    /\ done = NoneDone
    /\ examined = NoneExamined
    /\ accessed = NotAccessed
    /\ bound \in {Wide, Repeat}

sortLocals == <<pc, todo, visited, finished, stack, nsorts, entered, done, examined, bound>>

----------------------------------------------------------------------------
\* Graph store

\* RegisterVertex as it would be without the lookup of the key.
RegisterVertexOverwrite(key, data) ==
    /\ pc = "idle"
    /\ vertices' = MapSet(vertices, key, NewGraphNode(key, data))
    /\ last' = Call("RegisterVertex", key, data, <<>>, NoErr)
    /\ UNCHANGED <<adjacencyList, topoSortedOrder, nedges, sortLocals, accessed>>

\* RegisterVertex as it would be if a registration cleared the stored order.
RegisterVertexInvalidating(key, data) ==
    /\ pc = "idle"
    /\ IF key \in DOMAIN vertices
       THEN /\ last' = Call("RegisterVertex", key, data, <<>>, ErrDuplicateVertex)
            /\ UNCHANGED <<vertices, topoSortedOrder>>
       ELSE /\ vertices' = MapSet(vertices, key, NewGraphNode(key, data))
            /\ topoSortedOrder' = <<>>
            /\ last' = Call("RegisterVertex", key, data, <<>>, NoErr)
    /\ UNCHANGED <<adjacencyList, nedges, sortLocals, accessed>>

RegisterVertex(key, data) ==
    /\ pc = "idle"
    /\ IF key \in DOMAIN vertices
       THEN /\ last' = Call("RegisterVertex", key, data, <<>>, ErrDuplicateVertex)
            /\ UNCHANGED vertices
       ELSE /\ vertices' = MapSet(vertices, key, NewGraphNode(key, data))
            /\ last' = Call("RegisterVertex", key, data, <<>>, NoErr)
    /\ UNCHANGED <<adjacencyList, topoSortedOrder, nedges, sortLocals, accessed>>

\* AddEdge as it would be if it registered the endpoints it does not find.
AddEdgeAutoRegister(source, dest) ==
    /\ pc = "idle"
    /\ nedges < bound.edges
    /\ LET withSource == IF source \in DOMAIN vertices THEN vertices
                         ELSE MapSet(vertices, source, NewGraphNode(source, "d1"))
           withBoth == IF dest \in DOMAIN withSource THEN withSource
                       ELSE MapSet(withSource, dest, NewGraphNode(dest, "d1"))
       IN  /\ vertices' = withBoth
           /\ ~containsNode(MapGet(adjacencyList, source, <<>>), withBoth[dest])
           /\ adjacencyList' =
                  MapSet(adjacencyList, source,
                         Append(MapGet(adjacencyList, source, <<>>), withBoth[dest]))
    /\ nedges' = nedges + 1
    /\ last' = Call("AddEdge", source, dest, <<>>, NoErr)
    /\ UNCHANGED <<topoSortedOrder, sortLocals, accessed>>

\* AddEdge as it would be if it refused an edge from a vertex to itself.
AddEdgeNoSelfLoop(source, dest) ==
    /\ pc = "idle"
    /\ IF source \notin DOMAIN vertices \/ dest \notin DOMAIN vertices
       THEN /\ last' = Call("AddEdge", source, dest, <<>>, ErrUnregistered(source))
            /\ UNCHANGED <<adjacencyList, nedges>>
       ELSE IF source = dest
               \/ containsNode(MapGet(adjacencyList, source, <<>>), vertices[dest])
       THEN /\ last' = Call("AddEdge", source, dest, <<>>, ErrDuplicateEdge(source, dest))
            /\ UNCHANGED <<adjacencyList, nedges>>
       ELSE /\ nedges < bound.edges
            /\ adjacencyList' =
                   MapSet(adjacencyList, source,
                          Append(MapGet(adjacencyList, source, <<>>), vertices[dest]))
            /\ nedges' = nedges + 1
            /\ last' = Call("AddEdge", source, dest, <<>>, NoErr)
    /\ UNCHANGED <<vertices, topoSortedOrder, sortLocals, accessed>>

AddEdge(source, dest) ==
    /\ pc = "idle"
    /\ IF source \notin DOMAIN vertices
       THEN /\ last' = Call("AddEdge", source, dest, <<>>, ErrUnregistered(source))
            /\ UNCHANGED <<adjacencyList, nedges>>
       ELSE IF dest \notin DOMAIN vertices
       THEN /\ last' = Call("AddEdge", source, dest, <<>>, ErrUnregistered(source))
            /\ UNCHANGED <<adjacencyList, nedges>>
       ELSE IF containsNode(MapGet(adjacencyList, source, <<>>), vertices[dest])
       THEN /\ last' = Call("AddEdge", source, dest, <<>>, ErrDuplicateEdge(source, dest))
            /\ UNCHANGED <<adjacencyList, nedges>>
       ELSE /\ nedges < bound.edges
            /\ adjacencyList' =
                   MapSet(adjacencyList, source,
                          Append(MapGet(adjacencyList, source, <<>>), vertices[dest]))
            /\ nedges' = nedges + 1
            /\ last' = Call("AddEdge", source, dest, <<>>, NoErr)
    /\ UNCHANGED <<vertices, topoSortedOrder, sortLocals, accessed>>

----------------------------------------------------------------------------
\* Accessors

CallSortedKeys ==
    /\ pc = "idle"
    /\ last' = Call("SortedKeys", NoKey, NoKey, SortedKeys(topoSortedOrder), NoErr)
    /\ accessed' = [n |-> IF accessed.n = 0 THEN 1 ELSE 2,
                    keys |-> SortedKeys(topoSortedOrder)]
    /\ UNCHANGED <<vertices, adjacencyList, topoSortedOrder, nedges, sortLocals>>

CallSortedValues ==
    /\ pc = "idle"
    /\ last' = Call("SortedValues", NoKey, NoKey, SortedValues(topoSortedOrder), NoErr)
    /\ UNCHANGED <<vertices, adjacencyList, topoSortedOrder, nedges, sortLocals, accessed>>

----------------------------------------------------------------------------
\* Traversal engine: DepthFirstSearch

Top == stack[Len(stack)]

Neighbors(node) == MapGet(adjacencyList, node.Key, <<>>)

\* The call g.DepthFirstSearch(node, visited, finished) up to its range loop.
Enter(node) ==
    /\ visited' = MapSet(visited, node, TRUE)
    /\ stack' = Append(stack, [node |-> node, i |-> 1])
    /\ entered' = [entered EXCEPT ![node.Key] = @ + 1]

\* The range loop continues with the next neighbor of the innermost frame.
Advance(s) == [s EXCEPT ![Len(s)].i = @ + 1]

\* DepthFirstSearch as it would be if a neighbor in progress were passed over.
DFSCycleIgnored ==
    /\ pc = "dfs"
    /\ Top.i <= Len(Neighbors(Top.node))
    /\ MapGet(visited, Neighbors(Top.node)[Top.i], FALSE)
    /\ stack' = Advance(stack)
    /\ examined' = [examined EXCEPT ![<<Top.node.Key, Top.i>>] = @ + 1]
    /\ UNCHANGED <<vertices, adjacencyList, topoSortedOrder, pc, todo, visited,
                   finished, last, nsorts, nedges, entered, done, accessed, bound>>

\* DepthFirstSearch as it would be without the test of visited[neighbor]: it
\* descends into the neighbor in progress again and again until the stack
\* of the goroutine is exhausted, and the call never returns.
DFSCycleRunaway ==
    /\ pc = "dfs"
    /\ Top.i <= Len(Neighbors(Top.node))
    /\ MapGet(visited, Neighbors(Top.node)[Top.i], FALSE)
    /\ pc' = "stack overflow"
    /\ UNCHANGED <<vertices, adjacencyList, topoSortedOrder, todo, visited, finished,
                   stack, last, nsorts, nedges, entered, done, examined, accessed,
                   bound>>

\* visited[neighbor] is true: the error is returned through every frame and
\* TopologicalSort returns []string{} with it.
DFSCycle ==
    /\ pc = "dfs"
    /\ Top.i <= Len(Neighbors(Top.node))
    /\ LET neighbor == Neighbors(Top.node)[Top.i] IN
         /\ MapGet(visited, neighbor, FALSE)
         /\ last' = Call("TopologicalSort", NoKey, NoKey, <<>>,
                         ErrCycle(Top.node.Key, neighbor.Key))
    /\ pc' = "idle"
    /\ stack' = <<>>
    /\ todo' = {}
    /\ visited' = EmptyMap
    /\ finished' = EmptyMap
    /\ entered' = [k \in Keys |-> 0]
    /\ done' = NoneDone
    /\ examined' = NoneExamined
    /\ UNCHANGED <<vertices, adjacencyList, topoSortedOrder, nedges, nsorts,
                   accessed, bound>>

\* DepthFirstSearch as it would be if it did not descend into a new neighbor.
DFSRecurseNoDescent ==
    /\ pc = "dfs"
    /\ Top.i <= Len(Neighbors(Top.node))
    /\ LET neighbor == Neighbors(Top.node)[Top.i] IN
         /\ ~MapGet(visited, neighbor, FALSE)
         /\ neighbor \notin DOMAIN finished
    /\ stack' = Advance(stack)
    /\ examined' = [examined EXCEPT ![<<Top.node.Key, Top.i>>] = @ + 1]
    /\ UNCHANGED <<vertices, adjacencyList, topoSortedOrder, pc, todo, visited,
                   finished, last, nsorts, nedges, entered, done, accessed, bound>>

\* The neighbor is neither in progress nor finished: recurse.
DFSRecurse ==
    /\ pc = "dfs"
    /\ Top.i <= Len(Neighbors(Top.node))
    /\ LET neighbor == Neighbors(Top.node)[Top.i] IN
         /\ ~MapGet(visited, neighbor, FALSE)
         /\ neighbor \notin DOMAIN finished
         /\ Enter(neighbor)
    /\ examined' = [examined EXCEPT ![<<Top.node.Key, Top.i>>] = @ + 1]
    /\ UNCHANGED <<vertices, adjacencyList, topoSortedOrder, pc, todo, finished,
                   last, nsorts, nedges, done, accessed, bound>>

\* The neighbor is finished: nothing to do for it.
DFSSkip ==
    /\ pc = "dfs"
    /\ Top.i <= Len(Neighbors(Top.node))
    /\ LET neighbor == Neighbors(Top.node)[Top.i] IN
         /\ ~MapGet(visited, neighbor, FALSE)
         /\ neighbor \in DOMAIN finished
    /\ stack' = Advance(stack)
    /\ examined' = [examined EXCEPT ![<<Top.node.Key, Top.i>>] = @ + 1]
    /\ UNCHANGED <<vertices, adjacencyList, topoSortedOrder, pc, todo, visited,
                   finished, last, nsorts, nedges, entered, done, accessed, bound>>

\* DepthFirstSearch as it would be without "visited[node] = false".
DFSFinishStillVisited ==
    /\ pc = "dfs"
    /\ Top.i > Len(Neighbors(Top.node))
    /\ finished' = MapSet(finished, Top.node, TRUE)
    /\ topoSortedOrder' = Append(topoSortedOrder, Top.node)
    /\ IF Len(stack) > 1
       THEN /\ stack' = Advance(SubSeq(stack, 1, Len(stack) - 1))
            /\ pc' = "dfs"
       ELSE /\ stack' = <<>>
            /\ pc' = "loop"
    /\ done' = [done EXCEPT ![Top.node.Key] = @ + 1]
    /\ UNCHANGED <<vertices, adjacencyList, todo, visited, last, nsorts, nedges,
                   entered, examined, accessed, bound>>

\* DepthFirstSearch as it would be without "finished[node] = true".
DFSFinishNotMarked ==
    /\ pc = "dfs"
    /\ Top.i > Len(Neighbors(Top.node))
    /\ visited' = MapSet(visited, Top.node, FALSE)
    /\ topoSortedOrder' = Append(topoSortedOrder, Top.node)
    /\ IF Len(stack) > 1
       THEN /\ stack' = Advance(SubSeq(stack, 1, Len(stack) - 1))
            /\ pc' = "dfs"
       ELSE /\ stack' = <<>>
            /\ pc' = "loop"
    /\ done' = [done EXCEPT ![Top.node.Key] = @ + 1]
    /\ UNCHANGED <<vertices, adjacencyList, todo, finished, last, nsorts, nedges,
                   entered, examined, accessed, bound>>

\* The range loop is over: mark finished, append, return to the caller.
DFSFinish ==
    /\ pc = "dfs"
    /\ Top.i > Len(Neighbors(Top.node))
    /\ visited' = MapSet(visited, Top.node, FALSE)
    /\ finished' = MapSet(finished, Top.node, TRUE)
    /\ topoSortedOrder' = Append(topoSortedOrder, Top.node)
    /\ IF Len(stack) > 1
       THEN /\ stack' = Advance(SubSeq(stack, 1, Len(stack) - 1))
            /\ pc' = "dfs"
       ELSE /\ stack' = <<>>
            /\ pc' = "loop"
    /\ done' = [done EXCEPT ![Top.node.Key] = @ + 1]
    /\ UNCHANGED <<vertices, adjacencyList, todo, last, nsorts, nedges, entered,
                   examined, accessed, bound>>

----------------------------------------------------------------------------
\* Sort driver: TopologicalSort

SortBegin ==
    /\ pc = "idle"
    /\ nsorts < bound.sorts
    /\ nsorts' = nsorts + 1
    /\ visited' = EmptyMap
    /\ finished' = EmptyMap
    /\ todo' = {vertices[k] : k \in DOMAIN vertices}
    /\ entered' = [k \in Keys |-> 0]
    /\ pc' = "loop"
    /\ last' = Call("TopologicalSort", NoKey, NoKey, <<>>, NoErr)
    /\ done' = NoneDone
    /\ examined' = NoneExamined
    /\ accessed' = NotAccessed
    /\ UNCHANGED <<vertices, adjacencyList, topoSortedOrder, stack, nedges, bound>>

\* TopologicalSort as it would be if it started one traversal only.
SortVisitOnce ==
    /\ pc = "loop"
    /\ \E n \in todo :
         /\ n \notin DOMAIN visited
         /\ n \notin DOMAIN finished
         /\ Enter(n)
    /\ todo' = {}
    /\ pc' = "dfs"
    /\ UNCHANGED <<vertices, adjacencyList, topoSortedOrder, finished, last,
                   nsorts, nedges, done, examined, accessed, bound>>

\* The range loop yields n, which is in neither map: start a traversal at n.
SortVisit ==
    /\ pc = "loop"
    /\ \E n \in todo :
         /\ n \notin DOMAIN visited
         /\ n \notin DOMAIN finished
         /\ todo' = todo \ {n}
         /\ Enter(n)
    /\ pc' = "dfs"
    /\ UNCHANGED <<vertices, adjacencyList, topoSortedOrder, finished, last,
                   nsorts, nedges, done, examined, accessed, bound>>

\* TopologicalSort as it would be if it started a traversal at every vertex.
SortSkipRevisit ==
    /\ pc = "loop"
    /\ \E n \in todo :
         /\ (n \in DOMAIN visited \/ n \in DOMAIN finished)
         /\ todo' = todo \ {n}
         /\ Enter(n)
    /\ pc' = "dfs"
    /\ UNCHANGED <<vertices, adjacencyList, topoSortedOrder, finished, last,
                   nsorts, nedges, done, examined, accessed, bound>>

\* The range loop yields n, which an earlier traversal has reached.
SortSkip ==
    /\ pc = "loop"
    /\ \E n \in todo :
         /\ (n \in DOMAIN visited \/ n \in DOMAIN finished)
         /\ todo' = todo \ {n}
    /\ UNCHANGED <<vertices, adjacencyList, topoSortedOrder, pc, visited, finished,
                   stack, last, nsorts, nedges, entered, done, examined, accessed,
                   bound>>

\* The range loop is over: return g.SortedKeys(), nil.  The maps and the
\* counters of the call go out of scope.
SortReturn ==
    /\ pc = "loop"
    /\ todo = {}
    /\ last' = Call("TopologicalSort", NoKey, NoKey, SortedKeys(topoSortedOrder), NoErr)
    /\ pc' = "idle"
    /\ visited' = EmptyMap
    /\ finished' = EmptyMap
    /\ entered' = [k \in Keys |-> 0]
    /\ done' = NoneDone
    /\ examined' = NoneExamined
    /\ UNCHANGED <<vertices, adjacencyList, topoSortedOrder, todo, stack, nsorts,
                   nedges, accessed, bound>>

----------------------------------------------------------------------------

Next ==
    \/ \E key \in bound.keys, data \in bound.data : RegisterVertex(key, data)
    \/ \E source \in bound.keys, dest \in bound.keys : AddEdge(source, dest)
    \/ CallSortedKeys
    \/ CallSortedValues
    \/ SortBegin
    \/ SortVisit
    \/ SortSkip
    \/ SortReturn
    \/ DFSCycle
    \/ DFSRecurse
    \/ DFSSkip
    \/ DFSFinish

Spec == Init /\ [][Next]_vars

\* A step of the running TopologicalSort call.
SortStep ==
    \/ SortVisit
    \/ SortSkip
    \/ SortReturn
    \/ DFSCycle
    \/ DFSRecurse
    \/ DFSSkip
    \/ DFSFinish

\* TopologicalSort is one synchronous call on one goroutine: once begun, it
\* takes its next step as long as it has one.
FairSpec == Spec /\ WF_vars(SortStep)

----------------------------------------------------------------------------
\* The graph as a relation on keys

Registered == DOMAIN vertices

\* <<s, d>>: AddEdge(s, d) has succeeded.
EdgeSet ==
    UNION {{<<s, adjacencyList[s][i].Key>> : i \in 1..Len(adjacencyList[s])} :
              s \in DOMAIN adjacencyList}

Succ(S) == {e[2] : e \in {x \in EdgeSet : x[1] \in S}}

RECURSIVE ReachFrom(_)
ReachFrom(S) == IF Succ(S) \subseteq S THEN S ELSE ReachFrom(S \cup Succ(S))

\* The keys reachable from k along one edge or more.
Reachable(k) == ReachFrom(Succ({k}))

Cyclic == \E k \in Keys : k \in Reachable(k)

Returned == pc = "idle" /\ last.op = "TopologicalSort"

Range(seq) == {seq[i] : i \in 1..Len(seq)}

Before(seq, x, y) == \E i, j \in 1..Len(seq) : i < j /\ seq[i] = x /\ seq[j] = y

\* seq holds every element of S once and nothing else.
ExactlyOnce(seq, S) == Len(seq) = Cardinality(S) /\ Range(seq) = S

----------------------------------------------------------------------------
\* C1: the first TopologicalSort call on an acyclic graph returns the keys
\* with, for every edge source -> dest, dest before source, whatever the
\* order in which the vertex map is iterated.
C1_DependenciesFirst ==
    (Returned /\ nsorts = 1 /\ ~Cyclic) =>
        \A e \in EdgeSet : Before(last.keys, e[2], e[1])

\* A first sort has returned for a graph where c is reached along two paths.
C1_Witness ==
    /\ Returned /\ nsorts = 1 /\ ~Cyclic
    /\ {<<"a", "b">>, <<"a", "c">>, <<"b", "c">>} \subseteq EdgeSet
    /\ last.keys = <<"c", "b", "a">>

\* C2: on a graph with a directed cycle TopologicalSort returns a cycle
\* error and the empty sequence, wherever the traversal starts.
C2_CycleReported ==
    (Returned /\ Cyclic) =>
        /\ last.err.kind = ErrCycle(NoKey, NoKey).kind
        /\ last.keys = <<>>

\* A sort has failed on the cycle a -> b -> c -> a.
C2_Witness ==
    /\ Returned /\ last.err # NoErr
    /\ EdgeSet = {<<"a", "b">>, <<"b", "c">>, <<"c", "a">>}

\* C3: the first TopologicalSort call on an acyclic graph returns every
\* registered key exactly once and no other key.
C3_EveryVertexOnce ==
    (Returned /\ nsorts = 1 /\ ~Cyclic) => ExactlyOnce(last.keys, Registered)

\* A first sort has returned for three vertices in two components.
C3_Witness ==
    /\ Returned /\ nsorts = 1
    /\ Registered = Keys
    /\ EdgeSet = {<<"a", "b">>}
    /\ Len(last.keys) = 3

\* C4: on an acyclic graph no sort reports a cycle, and no vertex is entered
\* twice by one sort: a neighbor reached again is passed over.
C4_NoFalseCycle ==
    ~Cyclic =>
        /\ Returned => last.err = NoErr
        /\ \A k \in Keys : entered[k] <= 1

\* The traversal is at a neighbor it has finished along another path.
C4_Witness ==
    /\ pc = "dfs" /\ ~Cyclic
    /\ Len(stack) = 1
    /\ Top.i = 2
    /\ Top.i <= Len(Neighbors(Top.node))
    /\ Neighbors(Top.node)[Top.i] \in DOMAIN finished
    /\ Neighbors(Top.node)[Top.i].Key \in Reachable(Neighbors(Top.node)[1].Key)

\* C5: after a first TopologicalSort call that failed, neither the returned
\* sequence nor SortedKeys / SortedValues hold a vertex finished before the
\* cycle was found.
C5_NoPartialOrder ==
    (Returned /\ nsorts = 1 /\ last.err # NoErr) =>
        /\ last.keys = <<>>
        /\ SortedKeys(topoSortedOrder) = <<>>
        /\ SortedValues(topoSortedOrder) = <<>>

\* C6: every TopologicalSort call on an acyclic graph returns each
\* registered key exactly once, the second call and a call after further
\* RegisterVertex / AddEdge calls included.
C6_RecomputedEachCall ==
    (Returned /\ ~Cyclic) => ExactlyOnce(last.keys, Registered)

\* C7: AddEdge with an unregistered source or dest returns an error, creates
\* no vertex and changes no adjacency sequence.
C7_UnregisteredNoEffect ==
    [][(/\ last'.op = "AddEdge"
        /\ (last'.a1 \notin Registered \/ last'.a2 \notin Registered))
       => (/\ last'.err # NoErr
           /\ vertices' = vertices
           /\ adjacencyList' = adjacencyList)]_vars

\* AddEdge has failed on an unregistered dest in a graph that has an edge.
C7_Witness ==
    /\ last.op = "AddEdge" /\ last.err # NoErr
    /\ last.a1 \in Registered /\ last.a2 \notin Registered
    /\ EdgeSet # {}

\* C8: when source is registered and dest is not, the error of AddEdge
\* names dest.
C8_ErrorNamesMissingKey ==
    (/\ last.op = "AddEdge"
     /\ last.a1 \in Registered
     /\ last.a2 \notin Registered)
    => (last.err # NoErr /\ last.err.k1 = last.a2)

\* C9: RegisterVertex with a registered key returns an error and keeps the
\* vertices, their payloads and the adjacency as they were.
C9_DuplicateVertexNoEffect ==
    [][(last'.op = "RegisterVertex" /\ last'.a1 \in Registered)
       => (/\ last'.err # NoErr
           /\ vertices' = vertices
           /\ adjacencyList' = adjacencyList)]_vars

\* RegisterVertex has failed on a key registered with the other payload.
C9_Witness ==
    /\ last.op = "RegisterVertex" /\ last.err = ErrDuplicateVertex
    /\ vertices[last.a1].Data # last.a2
    /\ EdgeSet # {}

NoRepeatedDest ==
    \A s \in DOMAIN adjacencyList :
        \A i, j \in 1..Len(adjacencyList[s]) :
            adjacencyList[s][i] = adjacencyList[s][j] => i = j

\* C10: AddEdge for a pair that has an edge returns an error and keeps the
\* adjacency as it was; no adjacency sequence ever holds a dest twice.
C10_DuplicateEdgeRejected ==
    [][/\ (last'.op = "AddEdge" /\ <<last'.a1, last'.a2>> \in EdgeSet)
          => (last'.err # NoErr /\ adjacencyList' = adjacencyList)
       /\ NoRepeatedDest']_vars

\* AddEdge has failed on the second of a's two edges.
C10_Witness ==
    /\ last.op = "AddEdge"
    /\ last.err = ErrDuplicateEdge(last.a1, last.a2)
    /\ Len(MapGet(adjacencyList, last.a1, <<>>)) = 2
    /\ adjacencyList[last.a1][2].Key = last.a2

\* The nodes of the frames of the running traversal: the current path.
OnPath == {stack[i].node : i \in 1..Len(stack)}

\* C11: the keys (node, neighbor) of a cycle error are an edge added by
\* AddEdge whose source is the vertex being explored and whose dest is in
\* progress, on the current traversal path, so that node is reachable from
\* neighbor.
C11_ClosingEdge ==
    [][(pc = "dfs" /\ last'.op = "TopologicalSort" /\ last'.err # NoErr)
       => (/\ last'.err.kind = ErrCycle(NoKey, NoKey).kind
           /\ last'.err.k1 = Top.node.Key
           /\ <<last'.err.k1, last'.err.k2>> \in EdgeSet
           /\ \E n \in OnPath : /\ n.Key = last'.err.k2
                                /\ MapGet(visited, n, FALSE)
                                /\ n \notin DOMAIN finished
           /\ last'.err.k1 \in ReachFrom({last'.err.k2}))]_vars

\* A sort has failed on the edge that closes a cycle through three vertices.
C11_Witness ==
    /\ Returned
    /\ last.err = ErrCycle("c", "a")
    /\ EdgeSet = {<<"a", "b">>, <<"b", "c">>, <<"c", "a">>}

\* C12: what a SortedValues call after a sort returns is as long as what
\* SortedKeys returns, and holds at every position the payload registered
\* under the key at that position.
C12_PayloadsAligned ==
    (pc = "idle" /\ nsorts >= 1 /\ last.op = "SortedValues") =>
        /\ Len(last.keys) = Len(SortedKeys(topoSortedOrder))
        /\ \A i \in 1..Len(last.keys) :
               last.keys[i] = vertices[SortedKeys(topoSortedOrder)[i]].Data

\* SortedValues has returned two different payloads after a sort.
C12_Witness ==
    /\ pc = "idle" /\ nsorts >= 1 /\ last.op = "SortedValues"
    /\ Len(last.keys) = 2
    /\ last.keys[1] # last.keys[2]

SelfLoop == \E k \in Keys : <<k, k>> \in EdgeSet

\* C13 as stated: AddEdge(k, k) on a registered key k succeeds, and every
\* later TopologicalSort call returns a cycle error.
C13_SelfLoopAlwaysAccepted ==
    [][/\ (last'.op = "AddEdge" /\ last'.a1 = last'.a2 /\ last'.a1 \in Registered)
          => last'.err = NoErr
       /\ (Returned' /\ SelfLoop')
          => last'.err.kind = ErrCycle(NoKey, NoKey).kind]_vars

\* C13, amended: AddEdge(k, k) on a registered key k that has no edge to
\* itself yet succeeds and adds the edge, and every TopologicalSort call
\* that returns while the graph has a self-loop returns a cycle error and
\* the empty sequence.
C13_SelfLoopAccepted ==
    [][/\ (/\ last'.op = "AddEdge" /\ last'.a1 = last'.a2
           /\ last'.a1 \in Registered
           /\ <<last'.a1, last'.a1>> \notin EdgeSet)
          => (/\ last'.err = NoErr
              /\ adjacencyList' # adjacencyList
              /\ <<last'.a1, last'.a1>> \in EdgeSet')
       /\ (Returned' /\ SelfLoop')
          => (/\ last'.err.kind = ErrCycle(NoKey, NoKey).kind
              /\ last'.keys = <<>>)]_vars

\* The second sort of a graph with a self-loop has failed on that edge.
C13_Witness ==
    /\ Returned /\ nsorts = 2
    /\ <<"a", "a">> \in EdgeSet
    /\ last.err = ErrCycle("a", "a")

\* C14: SortedKeys, SortedValues, RegisterVertex and AddEdge leave the stored
\* order as it is; a SortedKeys call returns what the SortedKeys call before
\* it returned when no sort began in between; before the first sort both
\* accessors return the empty sequence.
C14_NoImplicitSort ==
    [][/\ last'.op \in {"SortedKeys", "SortedValues", "RegisterVertex", "AddEdge"}
          => topoSortedOrder' = topoSortedOrder
       /\ (last'.op = "SortedKeys" /\ accessed.n >= 1)
          => last'.keys = accessed.keys
       /\ (last'.op \in {"SortedKeys", "SortedValues"} /\ nsorts = 0)
          => last'.keys = <<>>]_vars

\* The second SortedKeys call since the last sort has returned an order that
\* lacks a vertex registered after that sort.
C14_Witness ==
    /\ pc = "idle" /\ nsorts >= 1
    /\ last.op = "SortedKeys" /\ accessed.n = 2
    /\ last.keys # <<>>
    /\ Range(last.keys) # Registered

\* Every neighbor of the vertex at position i of the stored order stands at
\* an earlier position.
NeighborsEarlier(i) ==
    \A nb \in Range(Neighbors(topoSortedOrder[i])) :
        \E j \in 1..(i - 1) : topoSortedOrder[j] = nb

\* While the first sort runs, every appended vertex is finished and not in
\* progress, and its neighbors were appended before it; the order the call
\* leaves behind, on success or on a cycle, still has the neighbors first.
PostOrder ==
    (nsorts = 1 /\ (pc # "idle" \/ Returned)) =>
        \A i \in 1..Len(topoSortedOrder) :
            /\ NeighborsEarlier(i)
            /\ pc # "idle" =>
                   /\ topoSortedOrder[i] \in DOMAIN finished
                   /\ finished[topoSortedOrder[i]]
                   /\ ~MapGet(visited, topoSortedOrder[i], FALSE)

\* C15: in every state of a first TopologicalSort call each appended vertex
\* is marked finished and each of its neighbors was appended earlier; the
\* stored order changes only by appending the vertex that turns from in
\* progress to finished in that step.
C15_PostOrderInvariant ==
    [][/\ PostOrder'
       /\ topoSortedOrder' # topoSortedOrder
          => \E n \in DOMAIN visited :
                 /\ topoSortedOrder' = Append(topoSortedOrder, n)
                 /\ visited[n] /\ n \notin DOMAIN finished
                 /\ ~visited'[n]
                 /\ n \in DOMAIN finished' /\ finished'[n]]_vars

\* The first sort is running on a graph with a cycle and has appended a
\* vertex after its neighbor.
C15_Witness ==
    /\ pc = "dfs" /\ nsorts = 1 /\ Cyclic
    /\ Len(topoSortedOrder) = 2
    /\ topoSortedOrder[1] \in Range(Neighbors(topoSortedOrder[2]))

\* The positions of the adjacency sequences: one per edge.
EdgePositions ==
    {e \in DOMAIN examined :
        e[1] \in DOMAIN adjacencyList /\ e[2] <= Len(adjacencyList[e[1]])}

\* C16: while a sort runs, no vertex has been entered or finished more than
\* once and no edge examined more than once (the edge the traversal is about
\* to examine has not been examined); when the sort is about to return its
\* order, every vertex has been entered and finished once and every edge
\* examined once.
C16_EachOnce ==
    pc # "idle" =>
        /\ \A k \in Keys : entered[k] <= 1 /\ done[k] <= 1
        /\ \A e \in DOMAIN examined : examined[e] <= 1
        /\ (pc = "dfs" /\ Top.i <= Len(Neighbors(Top.node)))
           => examined[<<Top.node.Key, Top.i>>] = 0
        /\ (pc = "loop" /\ todo = {})
           => /\ \A k \in Keys :
                     /\ entered[k] = (IF k \in Registered THEN 1 ELSE 0)
                     /\ done[k] = entered[k]
              /\ \A e \in DOMAIN examined :
                     examined[e] = (IF e \in EdgePositions THEN 1 ELSE 0)

\* A sort of three vertices, with c reached along two paths, is about to
\* return.
C16_Witness ==
    /\ pc = "loop" /\ todo = {}
    /\ {<<"a", "b">>, <<"a", "c">>, <<"b", "c">>} = EdgeSet
    /\ \A e \in EdgePositions : examined[e] = 1

\* C17: every TopologicalSort call that has begun returns, with the order or
\* with a cycle error.
C17_SortTerminates == (pc # "idle") ~> Returned

\* A sort of three vertices, one of them with a self-loop, has returned.
C17_Witness ==
    /\ Returned
    /\ Registered = Keys
    /\ <<"c", "c">> \in EdgeSet
    /\ nedges = 3

====
